---- MODULE Spec2Model ----
(***************************************************************************)
(* Model of section_prioritizer.py (class SectionPrioritizer): the text    *)
(* normaliser clean_text, the segmenter extract_sections, the scorer       *)
(* calculate_section_score, the ranker prioritize_sections, the two        *)
(* validators and process_document.                                        *)
(*                                                                         *)
(* Python str values are TLA+ strings; a character is a string of length   *)
(* one.  Python float values are modelled exactly (see Flt below).         *)
(***************************************************************************)
EXTENDS Integers, Sequences, FiniteSets, TLC

VARIABLES
    pc,             \* position of the modelled call sequence
    text,           \* the str argument (raw text)
    persona,        \* the persona argument
    cleaned,        \* clean_text(text)
    recleaned,      \* clean_text(clean_text(text))
    section,        \* the section argument of calculate_section_score
    score,          \* its return value
    sections,       \* a list of sections (extract_sections' return value)
    prioritized,    \* prioritize_sections' return value
    top_sections,   \* process_document: prioritized_sections[:10]
    section_errors, \* the outcome of validate_sections
    results,        \* process_document: the results dict / validator argument
    json_errors     \* the outcome of validate_json_structure

vars == <<pc, text, persona, cleaned, recleaned, section, score, sections,
          prioritized, top_sections, section_errors, results, json_errors>>

None == "None"

-----------------------------------------------------------------------------
(* Characters and the str methods the program uses.  Operators that map   *)
(* a string position by position build their result by halving the range  *)
(* lo..hi, so that the evaluation depth is logarithmic in the length.      *)

Ch(s, i) == SubSeq(s, i, i)

CharsOf(s) == {Ch(s, i) : i \in 1..Len(s)}

LowerChars == "abcdefghijklmnopqrstuvwxyz"
UpperChars == "ABCDEFGHIJKLMNOPQRSTUVWXYZ"
LowerSet == CharsOf(LowerChars)
UpperSet == CharsOf(UpperChars)
DigitSet == CharsOf("0123456789")

\* the regex class \s and str.strip()'s default
SpaceSet == {" ", "\n", "\t", "\r"}

\* the regex class \w
WordSet == LowerSet \cup UpperSet \cup DigitSet \cup {"_"}

IsLower(c) == c \in LowerSet
IsUpper(c) == c \in UpperSet
IsDigit(c) == c \in DigitSet
IsSpace(c) == c \in SpaceSet
IsWord(c) == c \in WordSet

\* str.lower() on one character
LowerOf == [c \in UpperSet |->
               Ch(LowerChars, CHOOSE i \in 1..Len(UpperChars) : Ch(UpperChars, i) = c)]

LowerCh(c) == IF IsUpper(c) THEN LowerOf[c] ELSE c

RECURSIVE MapLower(_, _, _)
MapLower(s, lo, hi) ==
    IF lo > hi THEN ""
    ELSE IF lo = hi THEN LowerCh(Ch(s, lo))
    ELSE LET mid == (lo + hi) \div 2
         IN  MapLower(s, lo, mid) \o MapLower(s, mid + 1, hi)

\* str.lower()
Lower(s) == MapLower(s, 1, Len(s))

\* the first position from i on that holds no whitespace (Len(s) + 1 if none)
RECURSIVE FirstNonSpace(_, _)
FirstNonSpace(s, i) ==
    IF i > Len(s) \/ ~IsSpace(Ch(s, i)) THEN i ELSE FirstNonSpace(s, i + 1)

\* the last position up to i that holds no whitespace (0 if none)
RECURSIVE LastNonSpace(_, _)
LastNonSpace(s, i) ==
    IF i < 1 \/ ~IsSpace(Ch(s, i)) THEN i ELSE LastNonSpace(s, i - 1)

\* str.strip()
Strip(s) == SubSeq(s, FirstNonSpace(s, 1), LastNonSpace(s, Len(s)))

RECURSIVE LastNonColon(_, _)
LastNonColon(s, i) ==
    IF i < 1 \/ Ch(s, i) # ":" THEN i ELSE LastNonColon(s, i - 1)

\* str.rstrip(':')
RStripColon(s) == SubSeq(s, 1, LastNonColon(s, Len(s)))

\* str.endswith(':')
EndsWithColon(s) == Len(s) >= 1 /\ Ch(s, Len(s)) = ":"

\* needle occurs in s at position i
MatchAt(s, needle, i) ==
    i + Len(needle) - 1 <= Len(s) /\ SubSeq(s, i, i + Len(needle) - 1) = needle

\* the operator `needle in s`
Contains(s, needle) == \E i \in 1..(Len(s) + 1) : MatchAt(s, needle, i)

\* the occurrences str.count takes, scanning left to right from position i:
\* the leftmost match, then the leftmost one past its end, and so on
RECURSIVE CountFrom(_, _, _)
CountFrom(s, needle, i) ==
    LET at == {j \in i..Len(s) : MatchAt(s, needle, j)}
    IN  IF at = {} THEN 0
        ELSE LET first == CHOOSE j \in at : \A j2 \in at : j <= j2
             IN  1 + CountFrom(s, needle, first + Len(needle))

\* str.count(needle): non-overlapping occurrences, needle non-empty
Count(s, needle) == CountFrom(s, needle, 1)

-----------------------------------------------------------------------------
(* clean_text                                                              *)

\* re.sub(r'\s+', ' ', s): a whitespace run becomes one space, written at the
\* run's first position
RECURSIVE SubWsRuns(_, _, _)
SubWsRuns(s, lo, hi) ==
    IF lo > hi THEN ""
    ELSE IF lo = hi
         THEN IF ~IsSpace(Ch(s, lo)) THEN Ch(s, lo)
              ELSE IF lo > 1 /\ IsSpace(Ch(s, lo - 1)) THEN "" ELSE " "
    ELSE LET mid == (lo + hi) \div 2
         IN  SubWsRuns(s, lo, mid) \o SubWsRuns(s, mid + 1, hi)

\* the characters the allow-list regex keeps besides \w and \s
KeptPunct == {".", ",", ";", ":", "!", "?", "-", "(", ")", "[", "]", "{", "}", "\"", "'"}

IsKept(c) == IsWord(c) \/ IsSpace(c) \/ c \in KeptPunct

\* re.sub(r'[^\w\s\.\,\;\:\!\?\-\(\)\[\]\{\}\"\']', '', s)
RECURSIVE RemoveUnwanted(_, _, _)
RemoveUnwanted(s, lo, hi) ==
    IF lo > hi THEN ""
    ELSE IF lo = hi THEN (IF IsKept(Ch(s, lo)) THEN Ch(s, lo) ELSE "")
    ELSE LET mid == (lo + hi) \div 2
         IN  RemoveUnwanted(s, lo, mid) \o RemoveUnwanted(s, mid + 1, hi)

\* re.sub(c{2,}, c, s) for one punctuation character c: of a run of c only the
\* first is kept
RECURSIVE CollapseRepeats(_, _, _, _)
CollapseRepeats(s, c, lo, hi) ==
    IF lo > hi THEN ""
    ELSE IF lo = hi
         THEN (IF Ch(s, lo) = c /\ lo > 1 /\ Ch(s, lo - 1) = c THEN "" ELSE Ch(s, lo))
    ELSE LET mid == (lo + hi) \div 2
         IN  CollapseRepeats(s, c, lo, mid) \o CollapseRepeats(s, c, mid + 1, hi)

SpacedPunct == {".", ",", ";", ":", "!", "?"}

\* re.sub(r'\s+([\.\,\;\:\!\?])', r'\1', s): a whitespace character is dropped
\* when the character that ends its run is one of SpacedPunct
RECURSIVE DropSpaceBeforePunct(_, _, _)
DropSpaceBeforePunct(s, lo, hi) ==
    IF lo > hi THEN ""
    ELSE IF lo = hi
         THEN IF ~IsSpace(Ch(s, lo)) THEN Ch(s, lo)
              ELSE LET j == FirstNonSpace(s, lo)
                   IN  IF j <= Len(s) /\ Ch(s, j) \in SpacedPunct THEN "" ELSE Ch(s, lo)
    ELSE LET mid == (lo + hi) \div 2
         IN  DropSpaceBeforePunct(s, lo, mid) \o DropSpaceBeforePunct(s, mid + 1, hi)

\* re.sub(r'\s{2,}', ' ', s): a run of two or more becomes one space, a single
\* whitespace character stays
RECURSIVE LimitSpaces(_, _, _)
LimitSpaces(s, lo, hi) ==
    IF lo > hi THEN ""
    ELSE IF lo = hi
         THEN IF ~IsSpace(Ch(s, lo)) THEN Ch(s, lo)
              ELSE IF lo > 1 /\ IsSpace(Ch(s, lo - 1)) THEN ""
              ELSE IF lo < Len(s) /\ IsSpace(Ch(s, lo + 1)) THEN " "
              ELSE Ch(s, lo)
    ELSE LET mid == (lo + hi) \div 2
         IN  LimitSpaces(s, lo, mid) \o LimitSpaces(s, mid + 1, hi)

clean_text(t) ==
    IF t = "" THEN ""
    ELSE LET s0 == Strip(t)
             s1 == SubWsRuns(s0, 1, Len(s0))
             s2 == RemoveUnwanted(s1, 1, Len(s1))
             s3 == CollapseRepeats(s2, ".", 1, Len(s2))
             s4 == CollapseRepeats(s3, "!", 1, Len(s3))
             s5 == CollapseRepeats(s4, "?", 1, Len(s4))
             s6 == DropSpaceBeforePunct(s5, 1, Len(s5))
             s7 == LimitSpaces(s6, 1, Len(s6))
         IN  Strip(s7)

-----------------------------------------------------------------------------
(* extract_sections                                                        *)

\* the position of the first line break from i on (Len(t) + 1 if none)
NextBreak(t, i) ==
    LET nl == {j \in i..Len(t) : Ch(t, j) = "\n"}
    IN  IF nl = {} THEN Len(t) + 1 ELSE CHOOSE j \in nl : \A j2 \in nl : j <= j2

\* the lines of t from position i on
RECURSIVE SplitFrom(_, _)
SplitFrom(t, i) ==
    LET j == NextBreak(t, i)
    IN  <<SubSeq(t, i, j - 1)>> \o (IF j > Len(t) THEN <<>> ELSE SplitFrom(t, j + 1))

\* text.split('\n')
SplitLines(t) == SplitFrom(t, 1)

\* str.isupper(): at least one cased character and no lower-case one
IsUpperStr(line) ==
    /\ \E i \in 1..Len(line) : IsUpper(Ch(line, i))
    /\ \A i \in 1..Len(line) : ~IsLower(Ch(line, i))

RECURSIVE FirstNonDigit(_, _)
FirstNonDigit(s, i) ==
    IF i > Len(s) \/ ~IsDigit(Ch(s, i)) THEN i ELSE FirstNonDigit(s, i + 1)

\* re.match(r'^\d+\.\s+[A-Z]', line)
MatchesNumbered(line) ==
    LET d == FirstNonDigit(line, 1)
        u == FirstNonSpace(line, d + 1)
    IN  /\ d > 1
        /\ d <= Len(line) /\ Ch(line, d) = "."
        /\ u > d + 1
        /\ u <= Len(line) /\ IsUpper(Ch(line, u))

\* re.match(r'^[A-Z][a-z]+.*:$', line), line holding no line break
MatchesCapitalized(line) ==
    /\ Len(line) >= 3
    /\ IsUpper(Ch(line, 1))
    /\ IsLower(Ch(line, 2))
    /\ EndsWithColon(line)

MaxHeaderLen == 100

\* the header heuristic of the loop
IsHeader(line) ==
    \/ IsUpperStr(line)
    \/ MatchesNumbered(line)
    \/ MatchesCapitalized(line)
    \/ (Len(line) < MaxHeaderLen /\ EndsWithColon(line))

LinesPerPage == 50

\* `if current_section["content"].strip():` clean the section and append it
Flush(list, current_section) ==
    IF Strip(current_section.content) # ""
    THEN Append(list, [title |-> clean_text(current_section.title),
                       content |-> clean_text(current_section.content),
                       page_number |-> current_section.page_number])
    ELSE list

\* the loop over enumerate(lines) from index i (0-based) on; the result is
\* sections after the last section was added
RECURSIVE WalkLines(_, _, _, _)
WalkLines(lines, i, list, current_section) ==
    IF i >= Len(lines) THEN Flush(list, current_section)
    ELSE LET line == Strip(lines[i + 1])
         IN  IF line = "" THEN WalkLines(lines, i + 1, list, current_section)
             ELSE IF IsHeader(line)
             THEN WalkLines(lines, i + 1, Flush(list, current_section),
                            [title |-> RStripColon(line), content |-> "",
                             page_number |-> (i \div LinesPerPage) + 1])
             ELSE WalkLines(lines, i + 1, list,
                            [current_section EXCEPT !.content = @ \o line \o "\n"])

MinContentLen == 10

\* IsValidSection with the length test off by one
IsValidSectionAtLeast(sec) ==
    /\ Strip(sec.title) # ""
    /\ Strip(sec.content) # ""
    /\ Len(sec.content) >= MinContentLen

\* the filter on title and content
IsValidSection(sec) ==
    /\ Strip(sec.title) # ""
    /\ Strip(sec.content) # ""
    /\ Len(sec.content) > MinContentLen

extract_sections(t) ==
    LET all == WalkLines(SplitLines(t), 0, <<>>,
                         [title |-> "Introduction", content |-> "", page_number |-> 1])
    IN  SelectSeq(all, IsValidSection)

-----------------------------------------------------------------------------
(* Python floats (IEEE-754 binary64, round to nearest, ties to even).      *)
(* Every float the scorer computes is within a few units in the last place *)
(* of a multiple of 0.1, and every binary64 in [2^-4, 8) is a multiple of  *)
(* 2^-56.  The float x is the record [k, e] with                           *)
(*        x = (k * 2^56 + e) / (10 * 2^56)    exactly,                     *)
(* i.e. k tenths plus an error of e units of 2^-56 / 10.  [k, e] is a      *)
(* binary64 iff k * 2^56 + e is a multiple of Ulp(k, e).                   *)

\* the binade of the real (k*2^56 + e)/(10*2^56), k >= 1, as m + 4 where
\* 2^m <= x < 2^(m+1)
Binade(k, e) ==
    LET b == IF k < 2 THEN 0
             ELSE IF k < 3 THEN 1
             ELSE IF k < 5 THEN 2
             ELSE IF k < 10 THEN 3
             ELSE IF k < 20 THEN 4
             ELSE IF k < 40 THEN 5
             ELSE 6
    IN  IF k \in {5, 10, 20, 40} /\ e < 0 THEN b - 1 ELSE b

Pow2(n) == IF n = 0 THEN 1 ELSE IF n = 1 THEN 2 ELSE IF n = 2 THEN 4
           ELSE IF n = 3 THEN 8 ELSE IF n = 4 THEN 16 ELSE IF n = 5 THEN 32 ELSE 64

\* 2^n mod 10 for n >= 1
Pow2Mod10(n) == IF n % 4 = 0 THEN 6 ELSE IF n % 4 = 1 THEN 2
                ELSE IF n % 4 = 2 THEN 4 ELSE 8

\* one unit in the last place of the binade, in units of 2^-56 / 10
Ulp(k, e) == 10 * Pow2(Binade(k, e))

\* the binary64 nearest to the real (k*2^56 + e)/(10*2^56), ties to even:
\* the rounding every float operation ends with
FltRound(k, e) ==
    IF k = 0 THEN [k |-> 0, e |-> 0]
    ELSE LET sh  == Binade(k, e)
             M   == Ulp(k, e)
             \* k * 2^56 = M * Q + r0, with Q's parity that of c / 2
             c   == (k * Pow2Mod10(56 - sh)) % 10
             r0  == Pow2(sh) * c
             t   == r0 + e
             low == t \div M
             r   == t % M
             odd == ((c \div 2) + low) % 2 = 1
             up  == 2 * r > M \/ (2 * r = M /\ odd)
         IN  [k |-> k, e |-> M * low + (IF up THEN M ELSE 0) - r0]

\* a decimal literal with one fractional digit, e.g. 0.3 is Lit(3)
Lit(tenths) == FltRound(tenths, 0)

\* float + float
FltAdd(a, b) == FltRound(a.k + b.k, a.e + b.e)

\* int * float
IntMulFlt(n, a) == FltRound(n * a.k, n * a.e)

\* a <= b and a < b on floats
FltLE(a, b) == a.k < b.k \/ (a.k = b.k /\ a.e <= b.e)
FltLT(a, b) == a.k < b.k \/ (a.k = b.k /\ a.e < b.e)

\* min(a, b): b if b < a, else a
FltMin(a, b) == IF FltLT(b, a) THEN b ELSE a

\* round(x, 2): the binary64 nearest to x rounded to two decimals; x is within
\* 0.005 of its k tenths, so the two-decimal value is k / 10
Round2(x) == FltRound(x.k, 0)

-----------------------------------------------------------------------------
(* calculate_section_score                                                 *)

PersonaNames == {"executive", "technical", "marketing", "investor"}

\* self.personas
personas ==
    [n \in PersonaNames |->
        IF n = "executive" THEN
            [keywords |-> <<"strategy", "business", "revenue", "growth", "market",
                            "leadership", "vision">>,
             priority_sections |-> <<"executive summary", "business model",
                                     "market analysis", "financial projections">>]
        ELSE IF n = "technical" THEN
            [keywords |-> <<"technology", "implementation", "architecture", "code",
                            "development", "technical", "api">>,
             priority_sections |-> <<"technical architecture", "implementation details",
                                     "code examples", "system design">>]
        ELSE IF n = "marketing" THEN
            [keywords |-> <<"marketing", "brand", "customer", "user", "growth",
                            "acquisition", "engagement">>,
             priority_sections |-> <<"marketing strategy", "user acquisition",
                                     "customer journey", "brand positioning">>]
        ELSE
            [keywords |-> <<"investment", "funding", "financial", "roi", "valuation",
                            "exit", "returns">>,
             priority_sections |-> <<"financial projections", "business model",
                                     "market opportunity", "investment thesis">>]]

\* the loop `for keyword in keywords: if keyword.lower() in title_lower:
\* title_score += 0.3`, from keyword i on, with the running title_score
RECURSIVE TitleScore(_, _, _, _)
TitleScore(keywords, title_lower, i, title_score) ==
    IF i > Len(keywords) THEN title_score
    ELSE TitleScore(keywords, title_lower, i + 1,
                    IF Contains(title_lower, Lower(keywords[i]))
                    THEN FltAdd(title_score, Lit(3))
                    ELSE title_score)

\* the loop `content_score += min(count * 0.1, 0.5)`
RECURSIVE ContentScore(_, _, _, _)
ContentScore(keywords, content_lower, i, content_score) ==
    IF i > Len(keywords) THEN content_score
    ELSE LET count == Count(content_lower, Lower(keywords[i]))
         IN  ContentScore(keywords, content_lower, i + 1,
                          FltAdd(content_score, FltMin(IntMulFlt(count, Lit(1)), Lit(5))))

\* the loop that sets priority_bonus = 0.2 at the first phrase in the title
PriorityBonus(priority_sections, title_lower) ==
    IF \E i \in 1..Len(priority_sections) :
            Contains(title_lower, Lower(priority_sections[i]))
    THEN Lit(2)
    ELSE Lit(0)

\* calculate_section_score without the final min(..., 1.0)
calculate_section_score_unclamped(sec, p) ==
    IF p \notin DOMAIN personas THEN Lit(0)
    ELSE LET title_lower == Lower(sec.title)
             title_score == TitleScore(personas[p].keywords, title_lower, 1, Lit(0))
             content_score == ContentScore(personas[p].keywords, Lower(sec.content), 1, Lit(0))
             priority_bonus == PriorityBonus(personas[p].priority_sections, title_lower)
         IN  FltAdd(FltAdd(title_score, content_score), priority_bonus)

calculate_section_score(sec, p) ==
    IF p \notin DOMAIN personas THEN Lit(0)
    ELSE LET keywords == personas[p].keywords
             priority_sections == personas[p].priority_sections
             title_lower == Lower(sec.title)
             title_score == TitleScore(keywords, title_lower, 1, Lit(0))
             content_lower == Lower(sec.content)
             content_score == ContentScore(keywords, content_lower, 1, Lit(0))
             priority_bonus == PriorityBonus(priority_sections, title_lower)
         IN  FltMin(FltAdd(FltAdd(title_score, content_score), priority_bonus), Lit(10))

-----------------------------------------------------------------------------
(* prioritize_sections                                                     *)

\* scored_section = section.copy(); scored_section["relevance_score"] = score
Scored(sec, p) ==
    [title |-> sec.title, content |-> sec.content, page_number |-> sec.page_number,
     relevance_score |-> calculate_section_score(sec, p)]

\* InsertDesc as an unstable sort would do it: x goes in front of the elements
\* of equal key
RECURSIVE InsertDescUnstable(_, _, _)
InsertDescUnstable(sorted, x, i) ==
    IF i > Len(sorted) \/ FltLE(sorted[i].relevance_score, x.relevance_score)
    THEN SubSeq(sorted, 1, i - 1) \o <<x>> \o SubSeq(sorted, i, Len(sorted))
    ELSE InsertDescUnstable(sorted, x, i + 1)

\* list.sort(key=relevance_score, reverse=True) is stable: x goes in front of
\* the first element whose key is smaller, behind every element of equal key
RECURSIVE InsertDesc(_, _, _)
InsertDesc(sorted, x, i) ==
    IF i > Len(sorted) \/ FltLT(sorted[i].relevance_score, x.relevance_score)
    THEN SubSeq(sorted, 1, i - 1) \o <<x>> \o SubSeq(sorted, i, Len(sorted))
    ELSE InsertDesc(sorted, x, i + 1)

RECURSIVE SortDesc(_, _)
SortDesc(list, n) ==
    IF n = 0 THEN <<>> ELSE InsertDesc(SortDesc(list, n - 1), list[n], 1)

\* Ranked with the rank left 0-based
RankedZeroBased(sec, i) ==
    [title |-> sec.title, content |-> sec.content, page_number |-> sec.page_number,
     relevance_score |-> Round2(sec.relevance_score), importance_rank |-> i - 1]

\* section["importance_rank"] = i + 1; relevance_score = round(float(score), 2)
Ranked(sec, i) ==
    [title |-> sec.title, content |-> sec.content, page_number |-> sec.page_number,
     relevance_score |-> Round2(sec.relevance_score), importance_rank |-> i]

prioritize_sections(list, p) ==
    LET scored_sections == [i \in 1..Len(list) |-> Scored(list[i], p)]
        sorted == SortDesc(scored_sections, Len(scored_sections))
    IN  [i \in 1..Len(sorted) |-> Ranked(sorted[i], i)]

-----------------------------------------------------------------------------
(* The validators.  Their arguments are arbitrary Python objects, so a     *)
(* value is a record [type, val] naming its Python type, and a dict is a   *)
(* function from the keys it has to such values.                           *)

PyStr(s)   == [type |-> "str", val |-> s]
PyInt(n)   == [type |-> "int", val |-> n]
PyFloat(x) == [type |-> "float", val |-> x]
PyList(l)  == [type |-> "list", val |-> l]
PyNone     == [type |-> "NoneType", val |-> None]

\* a section of the pipeline as the dict it is
Dict(sec) ==
    [f \in DOMAIN sec |->
        IF f \in {"title", "content"} THEN PyStr(sec[f])
        ELSE IF f = "relevance_score" THEN PyFloat(sec[f])
        ELSE PyInt(sec[f])]

Dicts(list) == [i \in 1..Len(list) |-> Dict(list[i])]

required_fields == <<"title", "content", "page_number", "importance_rank", "relevance_score">>

Error(i, kind, field) == [section |-> i, kind |-> kind, field |-> field]

RanksNotSequential == "Importance ranks are not sequential"

\* 0 <= v <= 1 for an int or a float
InUnitRange(v) ==
    IF v.type = "int" THEN 0 <= v.val /\ v.val <= 1
    ELSE FltLE(Lit(0), v.val) /\ FltLE(v.val, Lit(10))

\* section["title"].strip() and section["content"].strip() are attribute
\* lookups on whatever the value is: AttributeError unless it is a str
RaisesOn(d) ==
    \/ "title" \in DOMAIN d /\ d["title"].type # "str"
    \/ "content" \in DOMAIN d /\ d["content"].type # "str"

MinTitleLen == 2
MinValidContentLen == 10

\* the errors the loop body appends for section i (1-based), in order
SectionErrors(d, i) ==
    LET missing == SelectSeq([j \in 1..Len(required_fields) |->
                                 Error(i, "missing required field", required_fields[j])],
                             LAMBDA m : m.field \notin DOMAIN d)
        rank == IF "importance_rank" \in DOMAIN d /\ d["importance_rank"].type # "int"
                THEN <<Error(i, "must be integer", "importance_rank")>> ELSE <<>>
        relevance ==
            IF "relevance_score" \notin DOMAIN d THEN <<>>
            ELSE IF d["relevance_score"].type \notin {"int", "float"}
            THEN <<Error(i, "must be number", "relevance_score")>>
            ELSE IF ~InUnitRange(d["relevance_score"])
            THEN <<Error(i, "must be between 0 and 1", "relevance_score")>>
            ELSE <<>>
        page == IF "page_number" \in DOMAIN d
                   /\ (d["page_number"].type # "int" \/ d["page_number"].val < 1)
                THEN <<Error(i, "must be positive integer", "page_number")>> ELSE <<>>
        title == IF "title" \in DOMAIN d
                    /\ (Strip(d["title"].val) = "" \/ Len(d["title"].val) < MinTitleLen)
                 THEN <<Error(i, "is too short or empty", "title")>> ELSE <<>>
        content == IF "content" \in DOMAIN d
                      /\ (Strip(d["content"].val) = "" \/ Len(d["content"].val) < MinValidContentLen)
                   THEN <<Error(i, "is too short or empty", "content")>> ELSE <<>>
    IN  missing \o rank \o relevance \o page \o title \o content

RECURSIVE AllSectionErrors(_, _)
AllSectionErrors(dicts, n) ==
    IF n = 0 THEN <<>>
    ELSE AllSectionErrors(dicts, n - 1) \o SectionErrors(dicts[n], n)

\* the outcome of validate_sections(dicts): the exception escapes (raised), or
\* the list errors is returned
validate_sections(dicts) ==
    IF \E i \in 1..Len(dicts) : RaisesOn(dicts[i])
    THEN [raised |-> TRUE, errors |-> <<>>]
    ELSE LET expected_ranks == 1..Len(dicts)
             actual_ranks == {dicts[i]["importance_rank"].val :
                                 i \in {j \in 1..Len(dicts) :
                                           /\ "importance_rank" \in DOMAIN dicts[j]
                                           /\ dicts[j]["importance_rank"].type = "int"}}
         IN  [raised |-> FALSE,
              errors |-> AllSectionErrors(dicts, Len(dicts))
                         \o (IF expected_ranks # actual_ranks
                             THEN <<Error(0, RanksNotSequential, "importance_rank")>>
                             ELSE <<>>)]

\* self.json_schema: what each property of the record must be
top_required == {"document", "persona", "job_to_be_done", "processing_timestamp",
                 "total_sections", "sections"}

item_required == {"title", "content", "page_number", "importance_rank", "relevance_score"}

Violation(i, field, keyword) == [section |-> i, field |-> field, keyword |-> keyword]

\* the violations of the schema of one item of "sections"
ItemViolations(d, i) ==
    {Violation(i, f, "required") : f \in item_required \ DOMAIN d}
    \cup {Violation(i, f, "type") :
            f \in {g \in {"title", "content"} \cap DOMAIN d : d[g].type # "str"}}
    \cup {Violation(i, f, "minLength") :
            f \in {g \in {"title", "content"} \cap DOMAIN d :
                      d[g].type = "str" /\ Len(d[g].val) < 1}}
    \cup {Violation(i, f, "type") :
            f \in {g \in {"page_number", "importance_rank"} \cap DOMAIN d : d[g].type # "int"}}
    \cup {Violation(i, f, "minimum") :
            f \in {g \in {"page_number", "importance_rank"} \cap DOMAIN d :
                      d[g].type = "int" /\ d[g].val < 1}}
    \cup {Violation(i, f, "type") :
            f \in {g \in {"relevance_score"} \cap DOMAIN d : d[g].type \notin {"int", "float"}}}
    \cup {Violation(i, f, "minimum/maximum") :
            f \in {g \in {"relevance_score"} \cap DOMAIN d :
                      d[g].type \in {"int", "float"} /\ ~InUnitRange(d[g])}}

\* every violation of self.json_schema by the record data
SchemaViolations(data) ==
    {Violation(0, f, "required") : f \in top_required \ DOMAIN data}
    \cup {Violation(0, f, "type") :
            f \in {g \in {"document", "persona", "job_to_be_done", "processing_timestamp"}
                          \cap DOMAIN data : data[g].type # "str"}}
    \cup {Violation(0, f, "enum") :
            f \in {g \in {"persona"} \cap DOMAIN data : data[g].val \notin PersonaNames}}
    \cup {Violation(0, f, "type") :
            f \in {g \in {"total_sections"} \cap DOMAIN data : data[g].type # "int"}}
    \cup {Violation(0, f, "minimum") :
            f \in {g \in {"total_sections"} \cap DOMAIN data :
                      data[g].type = "int" /\ data[g].val < 0}}
    \cup {Violation(0, f, "type") :
            f \in {g \in {"sections"} \cap DOMAIN data : data[g].type # "list"}}
    \cup (IF "sections" \in DOMAIN data /\ data["sections"].type = "list"
          THEN UNION {ItemViolations(data["sections"].val[i], i) :
                         i \in 1..Len(data["sections"].val)}
          ELSE {})

\* the lists validate_json_structure(data) can return: jsonschema.validate
\* raises one ValidationError (the library's pick among the violations), and
\* the handler appends its message
validate_json_structure(data) ==
    IF SchemaViolations(data) = {} THEN {<<>>}
    ELSE {<<v>> : v \in SchemaViolations(data)}

-----------------------------------------------------------------------------
(* process_document, one action per step.  extract_text_from_pdf is the   *)
(* document reader: its return value is the variable text.                 *)

Min(a, b) == IF a <= b THEN a ELSE b

TopN == 10

DocumentName == "report.pdf"
Timestamp == "2024-01-01T00:00:00"

\* the slice one entry too long
TopOffByOne(list) == SubSeq(list, 1, Min(TopN + 1, Len(list)))

\* the slice taken from the end of the ranking, prioritized_sections[-10:]
TopFromEnd(list) == SubSeq(list, Len(list) - Min(TopN, Len(list)) + 1, Len(list))

\* prioritized_sections[:10]
Top(list) == SubSeq(list, 1, Min(TopN, Len(list)))

\* `if not text: return {"error": ...}`
ReturnError ==
    /\ pc = "start"
    /\ text = ""
    /\ results' = [f \in {"error"} |-> PyStr("Could not extract text from " \o DocumentName)]
    /\ pc' = "done"
    /\ UNCHANGED <<text, persona, cleaned, recleaned, section, score, sections,
                   prioritized, top_sections, section_errors, json_errors>>

\* sections = self.extract_sections(text)
ExtractSections ==
    /\ pc = "start"
    /\ text # ""
    /\ sections' = extract_sections(text)
    /\ pc' = "extracted"
    /\ UNCHANGED <<text, persona, cleaned, recleaned, section, score,
                   prioritized, top_sections, section_errors, results, json_errors>>

\* prioritized_sections = self.prioritize_sections(sections, persona)
PrioritizeSections ==
    /\ pc = "extracted"
    /\ prioritized' = prioritize_sections(sections, persona)
    /\ pc' = "prioritized"
    /\ UNCHANGED <<text, persona, cleaned, recleaned, section, score, sections,
                   top_sections, section_errors, results, json_errors>>

\* top_sections = prioritized_sections[:10]
TakeTop ==
    /\ pc = "prioritized"
    /\ top_sections' = Top(prioritized)
    /\ pc' = "top"
    /\ UNCHANGED <<text, persona, cleaned, recleaned, section, score, sections,
                   prioritized, section_errors, results, json_errors>>

\* section_errors = self.validate_sections(top_sections); an exception would
\* end process_document
ValidateSections ==
    /\ pc = "top"
    /\ section_errors' = validate_sections(Dicts(top_sections))
    /\ pc' = IF section_errors'.raised THEN "raised" ELSE "validated"
    /\ UNCHANGED <<text, persona, cleaned, recleaned, section, score, sections,
                   prioritized, top_sections, results, json_errors>>

\* results = {...}
BuildResults ==
    /\ pc = "validated"
    /\ results' =
         [f \in top_required |->
            IF f = "document" THEN PyStr(DocumentName)
            ELSE IF f = "persona" THEN PyStr(persona)
            ELSE IF f = "job_to_be_done"
                 THEN PyStr("Prioritize document sections for " \o persona
                            \o " persona based on relevance and importance")
            ELSE IF f = "processing_timestamp" THEN PyStr(Timestamp)
            ELSE IF f = "total_sections" THEN PyInt(Len(sections))
            ELSE PyList(Dicts(top_sections))]
    /\ pc' = "results"
    /\ UNCHANGED <<text, persona, cleaned, recleaned, section, score, sections,
                   prioritized, top_sections, section_errors, json_errors>>

\* json_errors = self.validate_json_structure(results); return results
ValidateJson ==
    /\ pc = "results"
    /\ json_errors' \in validate_json_structure(results)
    /\ pc' = "done"
    /\ UNCHANGED <<text, persona, cleaned, recleaned, section, score, sections,
                   prioritized, top_sections, section_errors, results>>

-----------------------------------------------------------------------------
(* The inputs.  A text is a concatenation of chunks.                       *)

RECURSIVE Join(_, _)
Join(chunks, n) == IF n = 0 THEN "" ELSE Join(chunks, n - 1) \o chunks[n]

\* the concatenations of at most n chunks of pool
Texts(pool, n) == {Join(c, Len(c)) : c \in UNION {[1..m -> pool] : m \in 0..n}}

RECURSIVE Repeat(_, _)
Repeat(chunk, n) == IF n = 0 THEN "" ELSE chunk \o Repeat(chunk, n - 1)

PersonaArgs == PersonaNames \cup {"analyst"}

MaxChunks == 2
PrefixSections == 10

DocChunks == {"Market Analysis:\nmarket growth in 2024\n", "A:\nlorem ipsum dolor\n",
              "lorem ipsum\n", "summary 10\n", "a . . b\n", "Notes:\n", "\n"}

\* a document: nothing or PrefixSections equal sections, then up to MaxChunks chunks
DocTexts ==
    {head \o tail : head \in {"", Repeat("Annex:\nlorem ipsum\n", PrefixSections)},
                    tail \in Texts(DocChunks, MaxChunks)}

Init ==
    /\ pc = "start"
    /\ text \in DocTexts
    /\ persona \in PersonaArgs
    /\ cleaned = None /\ recleaned = None /\ section = None /\ score = None
    /\ sections = None /\ prioritized = None /\ top_sections = None
    /\ section_errors = None /\ results = None /\ json_errors = None

Next ==
    \/ ReturnError
    \/ ExtractSections
    \/ PrioritizeSections
    \/ TakeTop
    \/ ValidateSections
    \/ BuildResults
    \/ ValidateJson

Spec == Init /\ [][Next]_vars

-----------------------------------------------------------------------------
(* clean_text applied once and twice.                                      *)

MaxCleanLen == 5

CleanChars == {"a", " ", ".", "#", "!"}

InitClean ==
    /\ pc = "start"
    /\ text \in Texts(CleanChars, MaxCleanLen)
    /\ persona = None
    /\ cleaned = None /\ recleaned = None /\ section = None /\ score = None
    /\ sections = None /\ prioritized = None /\ top_sections = None
    /\ section_errors = None /\ results = None /\ json_errors = None

CleanText ==
    /\ pc = "start"
    /\ cleaned' = clean_text(text)
    /\ pc' = "cleaned"
    /\ UNCHANGED <<text, persona, recleaned, section, score, sections, prioritized,
                   top_sections, section_errors, results, json_errors>>

CleanAgain ==
    /\ pc = "cleaned"
    /\ recleaned' = clean_text(cleaned)
    /\ pc' = "recleaned"
    /\ UNCHANGED <<text, persona, cleaned, section, score, sections, prioritized,
                   top_sections, section_errors, results, json_errors>>

NextClean == CleanText \/ CleanAgain

SpecClean == InitClean /\ [][NextClean]_vars

-----------------------------------------------------------------------------
(* calculate_section_score on one section.                                 *)

MaxTitleChunks == 2
MaxContentChunks == 2

TitleChunks == {"Growth Strategy ", "Market Analysis ", "API code ", "Notes "}
ContentChunks == {"growth growth growth ", "market roi api "}

InitScore ==
    /\ pc = "start"
    /\ section \in {[title |-> t, content |-> c, page_number |-> 1] :
                       t \in Texts(TitleChunks, MaxTitleChunks),
                       c \in Texts(ContentChunks, MaxContentChunks)}
    /\ persona \in PersonaArgs
    /\ text = None /\ cleaned = None /\ recleaned = None /\ score = None
    /\ sections = None /\ prioritized = None /\ top_sections = None
    /\ section_errors = None /\ results = None /\ json_errors = None

CalculateSectionScore ==
    /\ pc = "start"
    /\ score' = calculate_section_score(section, persona)
    /\ pc' = "scored"
    /\ UNCHANGED <<text, persona, cleaned, recleaned, section, sections, prioritized,
                   top_sections, section_errors, results, json_errors>>

NextScore == CalculateSectionScore

SpecScore == InitScore /\ [][NextScore]_vars

-----------------------------------------------------------------------------
(* prioritize_sections on a list of sections.                              *)

MaxRanked == 3

RankPool ==
    {[title |-> "Strategy", content |-> "lorem", page_number |-> 1],
     [title |-> "Notes", content |-> "strategy strategy strategy", page_number |-> 1],
     [title |-> "Summary", content |-> "lorem", page_number |-> 2],
     [title |-> "Brand", content |-> "ipsum", page_number |-> 3],
     [title |-> "Market Strategy", content |-> "growth api", page_number |-> 3]}

InitRank ==
    /\ pc = "start"
    /\ sections \in UNION {[1..n -> RankPool] : n \in 0..MaxRanked}
    /\ persona \in PersonaArgs
    /\ text = None /\ cleaned = None /\ recleaned = None /\ section = None
    /\ score = None /\ prioritized = None /\ top_sections = None
    /\ section_errors = None /\ results = None /\ json_errors = None

Prioritize ==
    /\ pc = "start"
    /\ prioritized' = prioritize_sections(sections, persona)
    /\ pc' = "ranked"
    /\ UNCHANGED <<text, persona, cleaned, recleaned, section, score, sections,
                   top_sections, section_errors, results, json_errors>>

NextRank == Prioritize

SpecRank == InitRank /\ [][NextRank]_vars

-----------------------------------------------------------------------------
(* The validators on arbitrary records.                                    *)

MaxDicts == 2

GoodDict == Dict([title |-> "Market", content |-> "lorem ipsum dolor", page_number |-> 1,
                  relevance_score |-> Lit(5), importance_rank |-> 1])

\* d with key f set to v
With(d, f, v) == [g \in DOMAIN d |-> IF g = f THEN v ELSE d[g]]

\* d without key f
Without(d, f) == [g \in DOMAIN d \ {f} |-> d[g]]

DictPool ==
    {GoodDict,
     With(GoodDict, "importance_rank", PyInt(2)),
     With(GoodDict, "page_number", PyInt(0)),
     With(With(GoodDict, "page_number", PyInt(0)), "relevance_score", PyFloat(Lit(15))),
     With(GoodDict, "title", PyInt(5)),
     With(GoodDict, "content", PyNone),
     With(GoodDict, "title", PyStr("A")),
     Without(GoodDict, "relevance_score")}

Record(p, dicts) ==
    [f \in top_required |->
        IF f = "persona" THEN p
        ELSE IF f = "total_sections" THEN PyInt(Len(dicts))
        ELSE IF f = "sections" THEN PyList(dicts)
        ELSE PyStr(f)]

InitValidate ==
    /\ pc = "start"
    /\ results \in {Record(p, d) : p \in {PyStr("executive"), PyStr("ceo"), PyNone},
                                   d \in UNION {[1..n -> DictPool] : n \in 0..MaxDicts}}
    /\ text = None /\ persona = None /\ cleaned = None /\ recleaned = None
    /\ section = None /\ score = None /\ sections = None /\ prioritized = None
    /\ top_sections = None /\ section_errors = None /\ json_errors = None

CallValidateSections ==
    /\ pc = "start"
    /\ section_errors' = validate_sections(results["sections"].val)
    /\ pc' = "sections validated"
    /\ UNCHANGED <<text, persona, cleaned, recleaned, section, score, sections,
                   prioritized, top_sections, results, json_errors>>

CallValidateJson ==
    /\ pc = "start"
    /\ json_errors' \in validate_json_structure(results)
    /\ pc' = "json validated"
    /\ UNCHANGED <<text, persona, cleaned, recleaned, section, score, sections,
                   prioritized, top_sections, section_errors, results>>

NextValidate == CallValidateSections \/ CallValidateJson

SpecValidate == InitValidate /\ [][NextValidate]_vars

-----------------------------------------------------------------------------
(* Properties.                                                             *)

\* a ranked section without the two fields prioritize_sections adds
Base(sec) == [title |-> sec.title, content |-> sec.content, page_number |-> sec.page_number]

BaseSeq(list) == [i \in 1..Len(list) |-> Base(list[i])]

\* C1: prioritize_sections returns as many entries as it was given, the entry
\* at 0-based position i carries importance_rank i + 1, and the ranks are
\* exactly the set 1..N, each once.
RanksArePermutation ==
    pc = "ranked" =>
        /\ Len(prioritized) = Len(sections)
        /\ \A i \in 1..Len(prioritized) : prioritized[i].importance_rank = i
        /\ {prioritized[i].importance_rank : i \in 1..Len(prioritized)} = 1..Len(sections)
        /\ \A i, j \in 1..Len(prioritized) :
              prioritized[i].importance_rank = prioritized[j].importance_rank => i = j

\* a list of three sections that the ranking reorders
RankedAndReordered ==
    /\ pc = "ranked"
    /\ Len(sections) = 3
    /\ Base(prioritized[1]) # sections[1]
    /\ prioritized[3].importance_rank = 3

\* C2: the stored relevance_score never increases along the ranking, sections
\* with the same calculate_section_score keep their input order (input section
\* i stands behind exactly the sections of higher score and the earlier ones
\* of equal score), and with an unknown persona the output order is the
\* input order.
RankingMonotoneAndStable ==
    pc = "ranked" =>
        LET n == Len(sections)
            raws == {<<k, calculate_section_score(sections[k], persona)>> : k \in 1..n}
            raw(k) == (CHOOSE r \in raws : r[1] = k)[2]
            Before(i, j) == FltLT(raw(j), raw(i)) \/ (raw(i) = raw(j) /\ i < j)
            pos(i) == 1 + Cardinality({j \in 1..n : Before(j, i)})
        IN  /\ \A i, j \in 1..Len(prioritized) :
                  i < j => FltLE(prioritized[j].relevance_score,
                                 prioritized[i].relevance_score)
            /\ \A i \in 1..n : Base(prioritized[pos(i)]) = sections[i]
            /\ persona \notin PersonaNames => BaseSeq(prioritized) = sections

\* two different sections tie, and the ranking moved a later section ahead
TieKeptInOrder ==
    /\ pc = "ranked"
    /\ persona \in PersonaNames
    /\ BaseSeq(prioritized) # sections
    /\ \E i, j \in 1..Len(sections) :
          /\ i < j
          /\ sections[i] # sections[j]
          /\ calculate_section_score(sections[i], persona)
                = calculate_section_score(sections[j], persona)

\* C3: calculate_section_score returns a value in [0.0, 1.0] for each of the
\* four personas, and 0.0 for any other persona name.
ScoreInUnitRange ==
    pc = "scored" =>
        /\ FltLE(Lit(0), score)
        /\ FltLE(score, Lit(10))
        /\ persona \notin PersonaNames => score = Lit(0)

\* title hits 0.9 plus the priority bonus 0.2 and capped content: clamped to 1.0
ScoreClamped ==
    /\ pc = "scored"
    /\ persona = "executive"
    /\ section.title = "Growth Strategy Market Analysis "
    /\ section.content = "growth growth growth growth growth growth "
    /\ score = Lit(10)

\* C4: the record of process_document reports the number of sections before
\* the truncation, and its sections are the first min(N, 10) entries of the
\* full ranking with the ranks that ranking gave them.
RecordKeepsFullRanking ==
    (pc \in {"results", "done"} /\ "total_sections" \in DOMAIN results) =>
        /\ results["total_sections"].val = Len(sections)
        /\ results["sections"].val
              = Dicts(SubSeq(prioritized, 1, Min(TopN, Len(sections))))
        /\ \A i \in 1..Len(results["sections"].val) :
              /\ results["sections"].val[i]["importance_rank"].val
                    = prioritized[i].importance_rank
              /\ results["sections"].val[i]["importance_rank"].val \in 1..Len(sections)

\* a document of more than ten sections went through, ten were retained
RecordOfLongDocument ==
    /\ pc = "done"
    /\ "total_sections" \in DOMAIN results
    /\ results["total_sections"].val > TopN
    /\ Len(results["sections"].val) = TopN

\* C5: clean_text(clean_text(s)) = clean_text(s) for every string s.
CleanTextIdempotent ==
    pc = "recleaned" => recleaned = cleaned

\* no non-blank line of t is a header
NoHeaderLine(t) ==
    \A i \in 1..Len(SplitLines(t)) :
        LET line == Strip(SplitLines(t)[i])
        IN  line = "" \/ ~IsHeader(line)

\* C6: for a text without header lines extract_sections returns the single
\* section "Introduction" on page 1 holding clean_text of the whole text when
\* that is longer than 10 characters, and no section otherwise.
HeaderlessTextIsIntroduction ==
    (pc = "extracted" /\ NoHeaderLine(text)) =>
        sections = IF Len(clean_text(text)) > 10
                   THEN <<[title |-> "Introduction", content |-> clean_text(text),
                           page_number |-> 1]>>
                   ELSE <<>>

\* a headerless text of several lines whose cleaned form differs from it
HeaderlessTextExtracted ==
    /\ pc = "extracted"
    /\ NoHeaderLine(text)
    /\ Len(SplitLines(text)) > 2
    /\ Len(sections) = 1
    /\ sections[1].content # text

\* C7: validate_sections and validate_json_structure never raise, whatever
\* the fields of the sections are.
ValidatorsNeverRaise ==
    /\ pc = "sections validated" => ~section_errors.raised
    /\ pc = "json validated" => json_errors \in Seq(SchemaViolations(results))

\* C8: both validators return a message for every violation of the input.
AllViolationsCollected ==
    /\ pc = "json validated" =>
          \A v \in SchemaViolations(results) :
              \E i \in 1..Len(json_errors) : json_errors[i] = v
    /\ (pc = "sections validated" /\ ~section_errors.raised) =>
          \A n \in 1..Len(results["sections"].val) :
              \A i \in 1..Len(SectionErrors(results["sections"].val[n], n)) :
                  \E j \in 1..Len(section_errors.errors) :
                      section_errors.errors[j] = SectionErrors(results["sections"].val[n], n)[i]

\* the outcome of validate_sections names a rank error
ReportsRankError(outcome) ==
    \E i \in 1..Len(outcome.errors) : outcome.errors[i].kind = RanksNotSequential

\* C9 as stated: for a document of more than 10 sections the validate_sections
\* call of process_document reports "Importance ranks are not sequential".
TruncationFailsRankCheck ==
    (pc = "validated" /\ Len(sections) > TopN) => ReportsRankError(section_errors)

\* C9, amended: for a document of more than 10 sections the validate_sections
\* call of process_document reports no rank error, the slice being the first
\* ten entries of the ranking, whose ranks are 1..10.
TruncationPassesRankCheck ==
    (pc = "validated" /\ Len(sections) > TopN) => ~ReportsRankError(section_errors)

\* the validator ran on the ten retained of more than ten sections
ValidatedAfterTruncation ==
    /\ pc = "validated"
    /\ Len(sections) > TopN
    /\ Len(top_sections) = TopN

\* C10: whatever extract_sections returns passes validate_sections once
\* ranked, for each of the four personas.
ExtractedSectionsValidate ==
    (pc = "prioritized" /\ persona \in PersonaNames) =>
        validate_sections(Dicts(prioritized)) = [raised |-> FALSE, errors |-> <<>>]

====
